---- MODULE Spec2Model ----
(***************************************************************************)
(* A model of tit.py, a time tracker with a git-like workflow.  The state  *)
(* is what the program keeps on disk: the HEAD file, the project           *)
(* directories and, per project, the three JSON files                      *)
(* (uncommitted_sessions.json, committed_sessions.json,                    *)
(* deleted_sessions.json).  Each function of tit.py that main() dispatches *)
(* to is an operator of the same name: from the files as they are and the  *)
(* command's inputs it gives what the function prints (outcome) and what   *)
(* the files hold when it returns.  The action of a command applies that   *)
(* operator to the disk; a command runs from its load_data calls to its    *)
(* last save_data call in one step.  For the commands run by processes     *)
(* that share the files, the same functions are also given one step per    *)
(* file access, with the line each process is at and its local variables   *)
(* in `invocations`.                                                       *)
(***************************************************************************)
EXTENDS Integers, Sequences, FiniteSets, TLC

(***************************************************************************)
(* Bounds of the model.                                                    *)
(***************************************************************************)
\* The clock runs over 0..MaxNow; one unit is one step of the resolution of
\* format_datetime ('%S').
MaxNow == 2
\* Units of the clock per unit of format_display_datetime ('%M').
TicksPerMinute == 2
\* `start` is not taken when it would make the ledger longer than this.
MaxLedger == 2
\* `commit` is not taken when it would make the project hold more records
\* than this (committed and deleted together).
MaxRecords == 2

\* The clock of the end-to-end scenario runs over 0..ScenarioMinutes minutes.
ScenarioMinutes == 40

\* Invocations of the program that can be running at the same time.
MaxProcs == 2
\* Last value of the clock, and longest ledger, in the runs of racing commit
\* and rm.
MaxRaceNow == 1
MaxRaceLedger == 1
\* Project names given on the command line.
Names == {"p"}
\* Project names of the runs of the project commands alone: two plain names
\* and one that `.strip()` shortens.
ProjectNames == {"p", "q", " q"}
\* Commit messages given on the command line (main() rejects the empty one).
Messages == {"A", " A"}

VARIABLES
    HEAD,          \* contents of HEAD_FILE as written; "" when absent or empty
    projects,      \* the directories under PROJECTS_DIR
    uncommitted,   \* project -> contents of uncommitted_sessions.json
    committed,     \* project -> contents of committed_sessions.json
    deleted,       \* project -> contents of deleted_sessions.json
    now,           \* datetime.now(), at the resolution of format_datetime
    invocations    \* running process -> the line it is at and its local variables

vars == <<HEAD, projects, uncommitted, committed, deleted, now, invocations>>
files == <<uncommitted, committed, deleted>>

(***************************************************************************)
(* Helpers.                                                                *)
(***************************************************************************)
Last(s) == s[Len(s)]

RECURSIVE SumSeq(_)
SumSeq(s) == IF s = <<>> THEN 0 ELSE s[1] + SumSeq(Tail(s))

\* 'end' in session
HasEnd(session) == "end" \in DOMAIN session

\* value in list (Python's `in` on a list: equality of values)
InList(x, list) == \E i \in 1..Len(list) : list[i] = x

\* list.remove(x): drops the first element equal to x
ListRemoveNone(list, x) == list
ListRemove(list, x) ==
    LET i == CHOOSE k \in 1..Len(list) :
                 list[k] = x /\ \A j \in 1..(k - 1) : list[j] # x
    IN  SubSeq(list, 1, i - 1) \o SubSeq(list, i + 1, Len(list))

\* load_data: a missing file reads as []
load_data(file, project) == file[project]

\* format_datetime: the clock is kept at the resolution of '%S' already
format_datetime(dt) == dt

\* format_display_datetime and parse_display_datetime: '%Y-%m-%d %I:%M %p'
\* has no seconds, so the round trip truncates to the minute
format_display_datetime(dt) == dt \div TicksPerMinute
parse_display_datetime(str) == str * TicksPerMinute

(***************************************************************************)
(* generate_commit_hash: SHA-1 of json.dumps(sessions, sort_keys=True).    *)
(* The digest is modelled as a fixed-width string over HashDigits that is  *)
(* determined by the sessions alone and differs for different sessions:    *)
(* the start and end of each session in order, padded to HashLen.          *)
(***************************************************************************)
Pad == -1
HashLen == 2 * MaxLedger
HashDigits == (0..MaxNow) \cup {Pad}

RECURSIVE Flatten(_)
Flatten(sessions) ==
    IF sessions = <<>> THEN <<>>
    ELSE <<sessions[1].start,
           IF HasEnd(sessions[1]) THEN sessions[1].end ELSE Pad>>
         \o Flatten(Tail(sessions))

generate_commit_hash(sessions) ==
    LET f == Flatten(sessions)
    IN  [i \in 1..HashLen |-> IF i <= Len(f) THEN f[i] ELSE Pad]

\* str.startswith
startswith_exact(str, prefix) == str = prefix
startswith(str, prefix) ==
    /\ Len(prefix) <= Len(str)
    /\ SubSeq(str, 1, Len(prefix)) = prefix

(***************************************************************************)
(* resolve_commit_hash: [ok |-> TRUE, hash |-> h], or the ValueError.      *)
(***************************************************************************)
RECURSIVE Matches(_, _)
Matches(partial_hash, data) ==
    IF data = <<>> THEN <<>>
    ELSE (IF startswith(data[1].hash, partial_hash)
            THEN <<data[1].hash>> ELSE <<>>)
         \o Matches(partial_hash, Tail(data))

resolve_first_match(partial_hash, committed_data, deleted_data) ==
    LET matches == Matches(partial_hash, committed_data \o deleted_data)
    IN  IF Len(matches) >= 1 THEN [ok |-> TRUE, hash |-> matches[1]]
        ELSE [ok |-> FALSE, error |-> "CommitNotFound"]

resolve_commit_hash(partial_hash, committed_data, deleted_data) ==
    LET matches == Matches(partial_hash, committed_data \o deleted_data)
    IN  IF Len(matches) = 1 THEN [ok |-> TRUE, hash |-> matches[1]]
        ELSE IF Len(matches) > 1 THEN [ok |-> FALSE, error |-> "AmbiguousHash"]
        ELSE [ok |-> FALSE, error |-> "CommitNotFound"]

\* `for commit in data: if commit.get('hash') == full_hash: ... break`:
\* the index of the commit found, 0 when there is none
FirstWithHash(data, full_hash) ==
    IF \E i \in 1..Len(data) : data[i].hash = full_hash
    THEN CHOOSE i \in 1..Len(data) :
             /\ data[i].hash = full_hash
             /\ \A j \in 1..(i - 1) : data[j].hash # full_hash
    ELSE 0

\* `.strip()` of a message line or of the contents of HEAD_FILE
strip(str) ==
    IF str = " A" THEN "A" ELSE IF str = " q" THEN "q" ELSE str

\* `f.read().strip()`, "" standing for None
get_current_project == strip(HEAD)

(***************************************************************************)
(* What a command leaves: what it printed and the three files of the       *)
(* current project.                                                        *)
(***************************************************************************)
Result(printed, uncommitted_data, committed_data, deleted_data) ==
    [outcome |-> printed, uncommitted |-> uncommitted_data,
     committed |-> committed_data, deleted |-> deleted_data]

\* a return before any save_data
Unsaved(printed) ==
    Result(printed, load_data(uncommitted, get_current_project),
           load_data(committed, get_current_project),
           load_data(deleted, get_current_project))

\* `if not project: print(...); return`
NoProject == [outcome |-> "NoProjectSelected"]

(***************************************************************************)
(* The confirmation prompts: `input(...).strip().lower()` and               *)
(* `confirm not in ['y', 'yes']`.                                          *)
(***************************************************************************)
\* answers typed at a prompt
Answers == {"y", " YES ", "", "n"}

strip_lower(answer) == IF answer = " YES " THEN "yes" ELSE answer

ConfirmedUnlessNo(answer) == strip_lower(answer) \notin {"n", "no"}
Confirmed(answer) == strip_lower(answer) \in {"y", "yes"}

\* what the answers amount to
Confirms == {Confirmed(answer) : answer \in Answers}

(***************************************************************************)
(* Session commands.                                                       *)
(***************************************************************************)
\* `data and 'end' not in data[-1]`
InProgressNever(data) == FALSE
InProgress(data) == data # <<>> /\ ~HasEnd(Last(data))

\* the session start_session appends
NewSessionClosed(dt) == [start |-> format_datetime(dt), end |-> format_datetime(dt)]
NewSession(dt) == [start |-> format_datetime(dt)]

start_session ==
    IF get_current_project = "" THEN NoProject
    ELSE LET data == load_data(uncommitted, get_current_project)
         IN  IF InProgress(data)
               THEN Unsaved("SessionInProgress")
               ELSE Result("SessionStarted", Append(data, NewSession(now)),
                           load_data(committed, get_current_project),
                           load_data(deleted, get_current_project))

\* `not data or 'end' in data[-1]`
NothingToStopIfEmpty(data) == data = <<>>
NothingToStop(data) == data = <<>> \/ HasEnd(Last(data))

stop_session ==
    IF get_current_project = "" THEN NoProject
    ELSE LET data == load_data(uncommitted, get_current_project)
         IN  IF NothingToStop(data)
               THEN Unsaved("NoActiveSession")
               ELSE Result("SessionStopped",
                           [data EXCEPT ![Len(data)] =
                               [start |-> Last(data).start,
                                end |-> format_datetime(now)]],
                           load_data(committed, get_current_project),
                           load_data(deleted, get_current_project))

\* committed_data.append(commit_data)
AppendCommitFirst(committed_data, commit_data) == <<commit_data>> \o committed_data
AppendCommit(committed_data, commit_data) == Append(committed_data, commit_data)

\* `not uncommitted_data or 'end' not in uncommitted_data[-1]`
NothingToCommitIfEmpty(uncommitted_data) == uncommitted_data = <<>>
NothingToCommit(uncommitted_data) ==
    uncommitted_data = <<>> \/ ~HasEnd(Last(uncommitted_data))

commit_session(message) ==
    IF get_current_project = "" THEN NoProject
    ELSE LET uncommitted_data == load_data(uncommitted, get_current_project)
             commit_data == [sessions |-> uncommitted_data,
                             message |-> message,
                             hash |-> generate_commit_hash(uncommitted_data)]
         IN  IF NothingToCommit(uncommitted_data)
               THEN Unsaved("NothingToCommit")
               ELSE Result("Committed", <<>>,
                           AppendCommit(load_data(committed, get_current_project),
                                        commit_data),
                           load_data(deleted, get_current_project))

\* `save_data([], uncommitted_file)`
DiscardedClosed(uncommitted_data) ==
    SelectSeq(uncommitted_data, LAMBDA session : ~HasEnd(session))
Discarded(uncommitted_data) == <<>>

reset_sessions(confirm) ==
    IF get_current_project = "" THEN NoProject
    ELSE LET uncommitted_data == load_data(uncommitted, get_current_project)
         IN  IF uncommitted_data = <<>> THEN Unsaved("NothingToReset")
             ELSE IF ~confirm THEN Unsaved("ResetAborted")
             ELSE Result("ResetDone", Discarded(uncommitted_data),
                         load_data(committed, get_current_project),
                         load_data(deleted, get_current_project))

(***************************************************************************)
(* purge_commit and remove_commit.  `confirm` is the answer given at       *)
(* purge_commit's prompt if it is reached.                                 *)
(***************************************************************************)
\* `<source>_data.remove(commit_to_purge)`
PurgeFromLast(data, commit_to_purge) == SubSeq(data, 1, Len(data) - 1)
PurgeFrom(data, commit_to_purge) == ListRemove(data, commit_to_purge)

purge_commit(commit_hash, confirm) ==
    IF get_current_project = "" THEN NoProject
    ELSE LET committed_data == load_data(committed, get_current_project)
             uncommitted_data == load_data(uncommitted, get_current_project)
             deleted_data == load_data(deleted, get_current_project)
             r == resolve_commit_hash(commit_hash, committed_data, deleted_data)
             ic == FirstWithHash(committed_data, r.hash)
             id == FirstWithHash(deleted_data, r.hash)
         IN  IF ~r.ok THEN Unsaved(r.error)
             ELSE IF ic = 0 /\ id = 0 THEN Unsaved("CommitNotFound")
             ELSE IF ~confirm THEN Unsaved("PurgeAborted")
             ELSE IF ic # 0
             THEN Result("Purged", uncommitted_data,
                         PurgeFrom(committed_data, committed_data[ic]), deleted_data)
             ELSE Result("Purged", uncommitted_data, committed_data,
                         PurgeFrom(deleted_data, deleted_data[id]))

\* the commit is in the deleted sessions already: `purge_commit(full_hash)`
CascadeNotFound(full_hash, confirm) == Unsaved("CommitNotFound")
Cascade(full_hash, confirm) == purge_commit(full_hash, confirm)

\* `deleted_data.append(commit_to_remove)`
MoveToDeletedAlone(deleted_data, commit_to_remove) == <<commit_to_remove>>
MoveToDeleted(deleted_data, commit_to_remove) == Append(deleted_data, commit_to_remove)

remove_commit(commit_hash, confirm) ==
    IF get_current_project = "" THEN NoProject
    ELSE LET committed_data == load_data(committed, get_current_project)
             deleted_data == load_data(deleted, get_current_project)
             r == resolve_commit_hash(commit_hash, committed_data, deleted_data)
             ic == FirstWithHash(committed_data, r.hash)
         IN  IF ~r.ok THEN Unsaved(r.error)
             ELSE IF ic = 0
             THEN IF FirstWithHash(deleted_data, r.hash) # 0
                    THEN Cascade(r.hash, confirm)
                    ELSE Unsaved("CommitNotFound")
             ELSE Result("Removed", load_data(uncommitted, get_current_project),
                         ListRemove(committed_data, committed_data[ic]),
                         MoveToDeleted(deleted_data, committed_data[ic]))

(***************************************************************************)
(* edit_commit.  The editor session is an input: `edited` is what the      *)
(* parse of the edited file yields (kind "parsed", with the message and    *)
(* the sessions), or kind "malformed" (IndexError / ValueError), or kind   *)
(* "noeditor" (find_editor raises).                                        *)
(***************************************************************************)
\* the message line is written as f"Commit Message: {m}" and read back with
\* strip

\* sessions as written to the temporary file and parsed back unchanged
RoundTrip(sessions) ==
    [i \in 1..Len(sessions) |->
        [start |-> parse_display_datetime(format_display_datetime(sessions[i].start)),
         end |-> parse_display_datetime(format_display_datetime(sessions[i].end))]]

\* `commit_data[...] = ...`: commit_data is the element of committed_data
\* itself, so the list keeps it where it was
UpdateMovesLast(committed_data, i, commit_data) ==
    SubSeq(committed_data, 1, i - 1)
       \o SubSeq(committed_data, i + 1, Len(committed_data)) \o <<commit_data>>
UpdateInPlace(committed_data, i, commit_data) ==
    [committed_data EXCEPT ![i] = commit_data]

\* `if not edited_sessions: committed_data.remove(commit_data)`
DropEmptiedKeeps(committed_data, commit_data) ==
    [k \in 1..Len(committed_data) |->
        IF committed_data[k] = commit_data
          THEN [sessions |-> <<>>, message |-> commit_data.message,
                hash |-> commit_data.hash]
          ELSE committed_data[k]]
DropEmptied(committed_data, commit_data) == ListRemove(committed_data, commit_data)

\* `commit_data["hash"] = generate_commit_hash(edited_sessions)`
RehashKept(commit_data, edited_sessions) == commit_data.hash
Rehash(commit_data, edited_sessions) == generate_commit_hash(edited_sessions)

\* `if not edited_sessions`
NoSessionsLeftNever(edited_sessions) == FALSE
NoSessionsLeft(edited_sessions) == edited_sessions = <<>>

\* the `[]` that edit_commit gives resolve_commit_hash as deleted_data
NotLoadedButDeleted(deleted_data) == deleted_data
NotLoaded(deleted_data) == <<>>

edit_commit(commit_hash, edited) ==
    IF get_current_project = "" THEN NoProject
    ELSE LET committed_data == load_data(committed, get_current_project)
             deleted_data == NotLoaded(load_data(deleted, get_current_project))
             r == resolve_commit_hash(commit_hash, committed_data, deleted_data)
             i == FirstWithHash(committed_data, r.hash)
             commit_data == committed_data[i]
         IN  IF ~r.ok THEN Unsaved(r.error)
             ELSE IF i = 0 THEN Unsaved("CommitNotFound")
             ELSE IF edited.kind = "noeditor" THEN Unsaved("EditorUnavailable")
             ELSE IF edited.kind = "malformed" THEN Unsaved("MalformedEdit")
             ELSE IF NoSessionsLeft(edited.sessions)
             THEN Result("EditDeleted",
                         load_data(uncommitted, get_current_project),
                         DropEmptied(committed_data, commit_data),
                         load_data(deleted, get_current_project))
             ELSE Result("Edited", load_data(uncommitted, get_current_project),
                         UpdateInPlace(committed_data, i,
                             [sessions |-> edited.sessions,
                              message |-> strip(edited.message),
                              hash |-> Rehash(commit_data, edited.sessions)]),
                         load_data(deleted, get_current_project))

(***************************************************************************)
(* show_total_time: the durations it prints.                               *)
(***************************************************************************)
SessionDuration(session) == session.end - session.start

CommitDuration(commit) ==
    SumSeq([i \in 1..Len(commit.sessions) |-> SessionDuration(commit.sessions[i])])

TotalTimeAllRecords(committed_data, uncommitted_data, deleted_data, current) ==
    [total |-> SumSeq([i \in 1..Len(committed_data \o deleted_data) |->
                         CommitDuration((committed_data \o deleted_data)[i])])]
TotalTime(committed_data, uncommitted_data, deleted_data, current) ==
    LET total_committed_duration ==
            SumSeq([i \in 1..Len(committed_data) |->
                      IF InList(committed_data[i], deleted_data) THEN 0
                      ELSE CommitDuration(committed_data[i])])
        total_uncommitted_duration ==
            SumSeq([i \in 1..Len(uncommitted_data) |->
                      (IF HasEnd(uncommitted_data[i])
                         THEN uncommitted_data[i].end ELSE current)
                      - uncommitted_data[i].start])
    IN  IF total_uncommitted_duration > 0
          THEN [committed |-> total_committed_duration,
                uncommitted |-> total_uncommitted_duration,
                total |-> total_committed_duration + total_uncommitted_duration]
          ELSE [total |-> total_committed_duration]

show_total_time ==
    IF get_current_project = "" THEN NoProject
    ELSE TotalTime(load_data(committed, get_current_project),
                   load_data(uncommitted, get_current_project),
                   load_data(deleted, get_current_project), now)

(***************************************************************************)
(* export_sessions: the commits it lists, the ledger rows it adds with     *)
(* --all, and the total it prints.  None is modelled as the empty tuple, a *)
(* datetime t as <<t>>: a datetime is never falsy.                         *)
(***************************************************************************)
None == <<>>

get_commit_time_last(commit) ==
    IF commit.sessions # <<>> THEN <<Last(commit.sessions).start>> ELSE None
get_commit_time(commit) ==
    IF commit.sessions # <<>> THEN <<commit.sessions[1].start>> ELSE None

\* `if from_commit: for commit in committed_data: if commit.get('hash') ==
\* from_commit: from_time = get_commit_time(commit); break`
BoundaryTime(committed_data, boundary_commit) ==
    LET i == FirstWithHash(committed_data, boundary_commit)
    IN  IF boundary_commit = <<>> \/ i = 0 THEN None
        ELSE get_commit_time(committed_data[i])

\* the comparisons of lines 439-447, for a commit that has a commit time
WithinExclusive(from_time, commit_time, to_time) ==
    IF from_time # None /\ to_time # None
      THEN from_time[1] < commit_time[1] /\ commit_time[1] < to_time[1]
    ELSE IF from_time # None THEN commit_time[1] > from_time[1]
    ELSE commit_time[1] < to_time[1]
Within(from_time, commit_time, to_time) ==
    IF from_time # None /\ to_time # None
      THEN from_time[1] <= commit_time[1] /\ commit_time[1] <= to_time[1]
    ELSE IF from_time # None THEN commit_time[1] >= from_time[1]
    ELSE commit_time[1] <= to_time[1]

RECURSIVE FilterCommits(_, _, _)
FilterCommits(committed_data, from_time, to_time) ==
    IF committed_data = <<>> THEN <<>>
    ELSE (IF get_commit_time(committed_data[1]) # None
             /\ Within(from_time, get_commit_time(committed_data[1]), to_time)
            THEN <<committed_data[1]>> ELSE <<>>)
         \o FilterCommits(Tail(committed_data), from_time, to_time)

RangeFilter(committed_data, from_commit, to_commit) ==
    LET from_time == BoundaryTime(committed_data, from_commit)
        to_time == BoundaryTime(committed_data, to_commit)
    IN  IF from_time # None \/ to_time # None
          THEN FilterCommits(committed_data, from_time, to_time)
          ELSE committed_data

export_sessions(show_all, from_commit, to_commit) ==
    IF get_current_project = "" THEN NoProject
    ELSE LET committed_data ==
                 RangeFilter(load_data(committed, get_current_project),
                             from_commit, to_commit)
             uncommitted_data == load_data(uncommitted, get_current_project)
             rows == IF show_all THEN uncommitted_data ELSE <<>>
         IN  [commits |-> committed_data,
              uncommitted |-> rows,
              total |-> SumSeq([i \in 1..Len(committed_data) |->
                                  CommitDuration(committed_data[i])])
                        + SumSeq([i \in 1..Len(rows) |->
                                  (IF HasEnd(rows[i]) THEN rows[i].end ELSE now)
                                  - rows[i].start])]

(***************************************************************************)
(* Project commands: what they print, HEAD_FILE and the directories when   *)
(* they return.                                                            *)
(***************************************************************************)
init_project(project) ==
    IF project \in projects
      THEN [outcome |-> "ProjectAlreadyExists", HEAD |-> HEAD, projects |-> projects]
      ELSE [outcome |-> "Initialized", HEAD |-> project,
            projects |-> projects \cup {project}]

checkout_project(project) ==
    IF project \notin projects
      THEN [outcome |-> "ProjectNotFound", HEAD |-> HEAD, projects |-> projects]
      ELSE [outcome |-> "Switched", HEAD |-> project, projects |-> projects]

delete_project(project, confirm) ==
    IF project \notin projects
      THEN [outcome |-> "ProjectNotFound", HEAD |-> HEAD, projects |-> projects]
    ELSE IF ~confirm
      THEN [outcome |-> "DeletionAborted", HEAD |-> HEAD, projects |-> projects]
    ELSE [outcome |-> "ProjectDeleted",
          HEAD |-> IF get_current_project = project THEN "" ELSE HEAD,
          projects |-> projects \ {project}]

(***************************************************************************)
(* Inputs.                                                                 *)
(***************************************************************************)
\* Hash prefixes given on the command line: the empty string, every prefix of
\* a hash the current project holds, and a string no hash starts with.
HeldHashes ==
    IF get_current_project = "" THEN {}
    ELSE LET committed_data == load_data(committed, get_current_project)
             deleted_data == load_data(deleted, get_current_project)
         IN  {committed_data[i].hash : i \in 1..Len(committed_data)}
             \cup {deleted_data[i].hash : i \in 1..Len(deleted_data)}

PrefixInputs ==
    {<<>>, <<Pad>>}
    \cup {SubSeq(h, 1, k) : h \in HeldHashes, k \in 1..HashLen}

\* --from and --to of export: absent, a hash the project holds, the first
\* character of one, or a hash it does not hold
BoundaryInputs ==
    {<<>>, [i \in 1..HashLen |-> Pad]}
    \cup HeldHashes \cup {SubSeq(h, 1, 1) : h \in HeldHashes}

\* instants a '%Y-%m-%d %I:%M %p' string can denote
DisplayInstants == {parse_display_datetime(format_display_datetime(t)) : t \in 0..MaxNow}

\* What the user can leave in the editor for the commit `commit_hash` resolves
\* to: the sessions as shown, none, or one session typed in.
EditInputs(commit_hash) ==
    LET committed_data == IF get_current_project = "" THEN <<>>
                          ELSE load_data(committed, get_current_project)
        r == resolve_commit_hash(commit_hash, committed_data, <<>>)
        sessions == committed_data[FirstWithHash(committed_data, r.hash)].sessions
        typed == {<<session>> : session \in
                     [start : DisplayInstants, end : DisplayInstants]}
        unread == [kind : {"noeditor", "malformed"}, message : {""}, sessions : {<<>>}]
    IN  IF r.ok
          THEN unread \cup [kind : {"parsed"}, message : Messages,
                            sessions : {RoundTrip(sessions), <<>>} \cup typed]
          ELSE {[kind |-> "noeditor", message |-> "", sessions |-> <<>>]}

\* The processes, and one that is not running: `line` is the line of tit.py it
\* is to execute next (0 when it is not running), the other fields its local
\* variables.
Procs == 1..MaxProcs

Idle ==
    [line |-> 0, command |-> "", project |-> "", message |-> "",
     full_hash |-> <<>>, uncommitted_data |-> <<>>, committed_data |-> <<>>,
     deleted_data |-> <<>>]

(***************************************************************************)
(* Init: nothing on disk yet.  Next: main() dispatches one command, or     *)
(* time passes.                                                            *)
(***************************************************************************)
Init ==
    /\ HEAD = ""
    /\ projects = {}
    /\ uncommitted = [p \in Names \cup ProjectNames |-> <<>>]
    /\ committed = [p \in Names \cup ProjectNames |-> <<>>]
    /\ deleted = [p \in Names \cup ProjectNames |-> <<>>]
    /\ now = 0
    /\ invocations = [i \in Procs |-> Idle]

Tick ==
    /\ now < MaxNow
    /\ now' = now + 1
    /\ UNCHANGED <<HEAD, projects, files, invocations>>

\* what the commands that reach a save_data print
Saving ==
    {"SessionStarted", "SessionStopped", "Committed", "ResetDone", "Purged",
     "Removed", "EditDeleted", "Edited"}

\* the save_data calls of a session command; `os.makedirs(..., exist_ok=True)`
\* makes the project directory if it is not there
Save(result) ==
    LET project == get_current_project
    IN  /\ IF project = "" THEN UNCHANGED files
           ELSE /\ uncommitted' = [uncommitted EXCEPT ![project] = result.uncommitted]
                /\ committed' = [committed EXCEPT ![project] = result.committed]
                /\ deleted' = [deleted EXCEPT ![project] = result.deleted]
        /\ projects' = IF result.outcome \in Saving
                         THEN projects \cup {project} ELSE projects
        /\ UNCHANGED <<HEAD, now, invocations>>

cmd_start ==
    /\ get_current_project # "" => Len(start_session.uncommitted) <= MaxLedger
    /\ Save(start_session)

cmd_end == Save(stop_session)

cmd_commit(message) ==
    /\ get_current_project # "" =>
          Len(commit_session(message).committed)
             + Len(commit_session(message).deleted) <= MaxRecords
    /\ Save(commit_session(message))

cmd_reset(confirm) == Save(reset_sessions(confirm))

cmd_rm(commit_hash, confirm) == Save(remove_commit(commit_hash, confirm))

cmd_purge(commit_hash, confirm) == Save(purge_commit(commit_hash, confirm))

cmd_edit(commit_hash, edited) == Save(edit_commit(commit_hash, edited))

cmd_init(project) ==
    /\ HEAD' = init_project(project).HEAD
    /\ projects' = init_project(project).projects
    /\ UNCHANGED <<files, now, invocations>>

cmd_checkout(project) ==
    /\ HEAD' = checkout_project(project).HEAD
    /\ projects' = checkout_project(project).projects
    /\ UNCHANGED <<files, now, invocations>>

\* os.remove of every file of the project directory, then os.rmdir
cmd_delete(project, confirm) ==
    LET result == delete_project(project, confirm)
    IN  /\ HEAD' = result.HEAD
        /\ projects' = result.projects
        /\ IF result.outcome = "ProjectDeleted"
             THEN /\ uncommitted' = [uncommitted EXCEPT ![project] = <<>>]
                  /\ committed' = [committed EXCEPT ![project] = <<>>]
                  /\ deleted' = [deleted EXCEPT ![project] = <<>>]
             ELSE UNCHANGED files
        /\ UNCHANGED <<now, invocations>>

Next ==
    \/ Tick
    \/ \E project \in Names : cmd_init(project)
    \/ \E project \in Names : cmd_checkout(project)
    \/ \E project \in Names, confirm \in Confirms : cmd_delete(project, confirm)
    \/ cmd_start
    \/ cmd_end
    \/ \E message \in Messages : cmd_commit(message)
    \/ \E confirm \in Confirms : cmd_reset(confirm)
    \/ \E commit_hash \in PrefixInputs, confirm \in Confirms :
           cmd_rm(commit_hash, confirm)
    \/ \E commit_hash \in PrefixInputs, confirm \in Confirms :
           cmd_purge(commit_hash, confirm)
    \/ \E commit_hash \in PrefixInputs :
           \E edited \in EditInputs(commit_hash) : cmd_edit(commit_hash, edited)

Spec == Init /\ [][Next]_vars

\* the histories that init, start, end, commit and rm alone give
NextSessions ==
    \/ Tick
    \/ \E project \in Names : cmd_init(project)
    \/ cmd_start
    \/ cmd_end
    \/ \E message \in Messages : cmd_commit(message)
    \/ \E commit_hash \in PrefixInputs, confirm \in Confirms :
           cmd_rm(commit_hash, confirm)

SpecSessions == Init /\ [][NextSessions]_vars

\* The same commands over a working day: the clock is read every ten
\* minutes, up to ScenarioMinutes, and the commits are named "A" and "B".
PassTenMinutes ==
    /\ now + 10 * TicksPerMinute <= ScenarioMinutes * TicksPerMinute
    /\ now' = now + 10 * TicksPerMinute
    /\ UNCHANGED <<HEAD, projects, files, invocations>>

NextScenario ==
    \/ PassTenMinutes
    \/ \E project \in Names : cmd_init(project)
    \/ cmd_start
    \/ cmd_end
    \/ \E message \in {"A", "B"} : cmd_commit(message)
    \/ \E commit_hash \in PrefixInputs, confirm \in Confirms :
           cmd_rm(commit_hash, confirm)

SpecScenario == Init /\ [][NextScenario]_vars

\* the project commands over ProjectNames, with start and end to tell the
\* projects' files apart
NextProjects ==
    \/ \E project \in ProjectNames : cmd_init(project)
    \/ \E project \in ProjectNames : cmd_checkout(project)
    \/ \E project \in ProjectNames, confirm \in Confirms :
           cmd_delete(project, confirm)
    \/ cmd_start
    \/ cmd_end

SpecProjects == Init /\ [][NextProjects]_vars

(***************************************************************************)
(* The same commands run by processes that share the files: one step per   *)
(* file access.  A step runs from one load_data or save_data call (or the  *)
(* answer to a prompt) up to the next; nothing locks the files.            *)
(***************************************************************************)
\* save_data(data, file) when the file holds `held`: open(file, 'w')
\* truncates, json.dump writes `data`
save_data_merged(data, held) ==
    data \o SelectSeq(held, LAMBDA x : ~InList(x, data))
save_data_appended(data, held) == held \o data
save_data(data, held) == data

\* full hashes given to rm by the racing processes
RaceHashInputs == HeldHashes \cup {<<Pad>>}

Running(i) == invocations[i].line # 0

Goto(i, locals) == invocations' = [invocations EXCEPT ![i] = locals]

\* the process prints `printed` and exits
Return(i, printed) == invocations' = [invocations EXCEPT ![i] = Idle]

\* main() to the first load_data: `project = get_current_project()`
Called(i, command) ==
    /\ ~Running(i)
    /\ get_current_project # ""
    /\ UNCHANGED <<HEAD, projects, files, now>>

\* start_session, lines 95-104
start_session_load(i) ==
    /\ Called(i, "start")
    /\ LET project == get_current_project
           data == load_data(uncommitted, project)
       IN  /\ Len(data) < MaxLedger
           /\ IF InProgress(data)
                THEN Return(i, "SessionInProgress")
                ELSE Goto(i, [Idle EXCEPT !.line = 105, !.command = "start",
                                          !.project = project,
                                          !.uncommitted_data = data])

\* start_session, lines 105-107
start_session_save(i) ==
    LET self == invocations[i]
        data == Append(self.uncommitted_data, NewSession(format_datetime(now)))
    IN  /\ self.line = 105
        /\ uncommitted' = [uncommitted EXCEPT
                              ![self.project] = save_data(data, @)]
        /\ projects' = projects \cup {self.project}
        /\ Return(i, "SessionStarted")
        /\ UNCHANGED <<HEAD, committed, deleted, now>>

\* stop_session, lines 110-119
stop_session_load(i) ==
    /\ Called(i, "end")
    /\ LET project == get_current_project
           data == load_data(uncommitted, project)
       IN  IF NothingToStop(data)
             THEN Return(i, "NoActiveSession")
             ELSE Goto(i, [Idle EXCEPT !.line = 120, !.command = "end",
                                       !.project = project,
                                       !.uncommitted_data = data])

\* stop_session, lines 120-122
stop_session_save(i) ==
    LET self == invocations[i]
        data == [self.uncommitted_data EXCEPT
                    ![Len(self.uncommitted_data)] =
                       [start |-> @.start, end |-> format_datetime(now)]]
    IN  /\ self.line = 120
        /\ uncommitted' = [uncommitted EXCEPT
                              ![self.project] = save_data(data, @)]
        /\ projects' = projects \cup {self.project}
        /\ Return(i, "SessionStopped")
        /\ UNCHANGED <<HEAD, committed, deleted, now>>

\* commit_session, lines 125-140
commit_session_load(i, message) ==
    /\ Called(i, "commit")
    /\ LET project == get_current_project
           uncommitted_data == load_data(uncommitted, project)
       IN  IF NothingToCommit(uncommitted_data)
                THEN Return(i, "NothingToCommit")
                ELSE Goto(i, [Idle EXCEPT !.line = 142, !.command = "commit",
                                          !.project = project,
                                          !.message = message,
                                          !.uncommitted_data = uncommitted_data])

\* commit_session, lines 142-143
commit_session_load_committed(i) ==
    LET self == invocations[i]
        commit_data == [sessions |-> self.uncommitted_data,
                        message |-> self.message,
                        hash |-> generate_commit_hash(self.uncommitted_data)]
        committed_data == AppendCommit(load_data(committed, self.project),
                                       commit_data)
    IN  /\ self.line = 142
        /\ Len(committed_data) + Len(load_data(deleted, self.project))
              <= MaxRecords
        /\ Goto(i, [self EXCEPT !.line = 145,
                                !.committed_data = committed_data])
        /\ UNCHANGED <<HEAD, projects, files, now>>

\* commit_session, line 145
commit_session_save_uncommitted(i) ==
    LET self == invocations[i]
    IN  /\ self.line = 145
        /\ uncommitted' = [uncommitted EXCEPT
                              ![self.project] = save_data(<<>>, @)]
        /\ projects' = projects \cup {self.project}
        /\ Goto(i, [self EXCEPT !.line = 146])
        /\ UNCHANGED <<HEAD, committed, deleted, now>>

\* commit_session, lines 146-147
commit_session_save_committed(i) ==
    LET self == invocations[i]
    IN  /\ self.line = 146
        /\ committed' = [committed EXCEPT
                            ![self.project] = save_data(self.committed_data, @)]
        /\ projects' = projects \cup {self.project}
        /\ Return(i, "Committed")
        /\ UNCHANGED <<HEAD, uncommitted, deleted, now>>

\* reset_sessions, lines 197-221: to the prompt
reset_sessions_load(i) ==
    /\ Called(i, "reset")
    /\ LET project == get_current_project
           uncommitted_data == load_data(uncommitted, project)
       IN  IF uncommitted_data = <<>>
             THEN Return(i, "NothingToReset")
             ELSE Goto(i, [Idle EXCEPT !.line = 223, !.command = "reset",
                                       !.project = project,
                                       !.uncommitted_data = uncommitted_data])

\* reset_sessions, lines 223-230: the answer, and the save if it confirms
reset_sessions_answer(i, confirm) ==
    LET self == invocations[i]
    IN  /\ self.line = 223
        /\ IF confirm
             THEN /\ uncommitted' =
                        [uncommitted EXCEPT
                            ![self.project] =
                               save_data(Discarded(self.uncommitted_data), @)]
                  /\ projects' = projects \cup {self.project}
                  /\ Return(i, "ResetDone")
             ELSE /\ Return(i, "ResetAborted")
                  /\ UNCHANGED <<uncommitted, projects>>
        /\ UNCHANGED <<HEAD, committed, deleted, now>>

\* remove_commit, lines 359-366
remove_commit_load_committed(i, commit_hash) ==
    /\ Called(i, "rm")
    /\ LET project == get_current_project
       IN  Goto(i, [Idle EXCEPT !.line = 367, !.command = "rm",
                                !.project = project,
                                !.full_hash = commit_hash,
                                !.committed_data = load_data(committed, project)])

\* remove_commit, lines 367-390: the second load, resolve_commit_hash and the
\* search for the commit
remove_commit_load_deleted(i) ==
    LET self == invocations[i]
        deleted_data == load_data(deleted, self.project)
        r == resolve_commit_hash(self.full_hash, self.committed_data,
                                 deleted_data)
    IN  /\ self.line = 367
        /\ Len(deleted_data) < MaxRecords
        /\ IF ~r.ok THEN Return(i, r.error)
           ELSE IF FirstWithHash(self.committed_data, r.hash) # 0
             THEN Goto(i, [self EXCEPT !.line = 393, !.full_hash = r.hash,
                                       !.deleted_data = deleted_data])
           ELSE IF FirstWithHash(deleted_data, r.hash) # 0
             THEN Goto(i, [Idle EXCEPT !.line = 515, !.command = "rm",
                                       !.project = self.project,
                                       !.full_hash = r.hash])
           ELSE Return(i, "CommitNotFound")
        /\ UNCHANGED <<HEAD, projects, files, now>>

\* remove_commit, lines 392-393
remove_commit_save_committed(i) ==
    LET self == invocations[i]
        commit_to_remove ==
            self.committed_data[FirstWithHash(self.committed_data,
                                              self.full_hash)]
        committed_data == ListRemove(self.committed_data, commit_to_remove)
        deleted_data == MoveToDeleted(self.deleted_data, commit_to_remove)
    IN  /\ self.line = 393
        /\ committed' = [committed EXCEPT
                            ![self.project] = save_data(committed_data, @)]
        /\ projects' = projects \cup {self.project}
        /\ Goto(i, [self EXCEPT !.line = 394,
                                !.committed_data = committed_data,
                                !.deleted_data = deleted_data])
        /\ UNCHANGED <<HEAD, uncommitted, deleted, now>>

\* remove_commit, lines 394-395
remove_commit_save_deleted(i) ==
    LET self == invocations[i]
    IN  /\ self.line = 394
        /\ deleted' = [deleted EXCEPT
                          ![self.project] = save_data(self.deleted_data, @)]
        /\ projects' = projects \cup {self.project}
        /\ Return(i, "Removed")
        /\ UNCHANGED <<HEAD, uncommitted, committed, now>>

\* purge_commit called by remove_commit, lines 508-516 (the ledger loaded at
\* line 516 is not used)
purge_commit_load_committed(i) ==
    LET self == invocations[i]
    IN  /\ self.line = 515
        /\ IF get_current_project = ""
             THEN Return(i, "NoProjectSelected")
             ELSE Goto(i, [self EXCEPT
                              !.line = 517,
                              !.project = get_current_project,
                              !.committed_data =
                                  load_data(committed, get_current_project)])
        /\ UNCHANGED <<HEAD, projects, files, now>>

\* purge_commit, lines 517-546: to the prompt
purge_commit_load_deleted(i) ==
    LET self == invocations[i]
        deleted_data == load_data(deleted, self.project)
        r == resolve_commit_hash(self.full_hash, self.committed_data,
                                 deleted_data)
    IN  /\ self.line = 517
        /\ IF ~r.ok THEN Return(i, r.error)
           ELSE IF FirstWithHash(self.committed_data, r.hash) = 0
                   /\ FirstWithHash(deleted_data, r.hash) = 0
             THEN Return(i, "CommitNotFound")
           ELSE Goto(i, [self EXCEPT !.line = 548, !.full_hash = r.hash,
                                     !.deleted_data = deleted_data])
        /\ UNCHANGED <<HEAD, projects, files, now>>

\* purge_commit, lines 548-564: the answer, and the save if it confirms
purge_commit_answer(i, confirm) ==
    LET self == invocations[i]
        ic == FirstWithHash(self.committed_data, self.full_hash)
        id == FirstWithHash(self.deleted_data, self.full_hash)
    IN  /\ self.line = 548
        /\ IF ~confirm
             THEN /\ Return(i, "PurgeAborted")
                  /\ UNCHANGED <<committed, deleted, projects>>
           ELSE IF ic # 0
             THEN /\ committed' =
                        [committed EXCEPT
                            ![self.project] =
                               save_data(PurgeFrom(self.committed_data,
                                                   self.committed_data[ic]), @)]
                  /\ projects' = projects \cup {self.project}
                  /\ Return(i, "Purged")
                  /\ UNCHANGED deleted
           ELSE /\ deleted' =
                      [deleted EXCEPT
                          ![self.project] =
                             save_data(PurgeFrom(self.deleted_data,
                                                 self.deleted_data[id]), @)]
                /\ projects' = projects \cup {self.project}
                /\ Return(i, "Purged")
                /\ UNCHANGED committed
        /\ UNCHANGED <<HEAD, uncommitted, now>>

\* the process is stopped (a signal, a power cut) where it is
Killed(i) ==
    /\ Running(i)
    /\ Return(i, "")
    /\ UNCHANGED <<HEAD, projects, files, now>>

\* start, end, commit and reset run by processes that share the ledger
NextRaceLedger ==
    \/ Tick
    \/ \E project \in Names : cmd_init(project)
    \/ \E i \in Procs : start_session_load(i)
    \/ \E i \in Procs : start_session_save(i)
    \/ \E i \in Procs : stop_session_load(i)
    \/ \E i \in Procs : stop_session_save(i)
    \/ \E i \in Procs, message \in {"A"} : commit_session_load(i, message)
    \/ \E i \in Procs : commit_session_load_committed(i)
    \/ \E i \in Procs : commit_session_save_uncommitted(i)
    \/ \E i \in Procs : commit_session_save_committed(i)
    \/ \E i \in Procs : reset_sessions_load(i)
    \/ \E i \in Procs, confirm \in Confirms : reset_sessions_answer(i, confirm)
    \/ \E i \in Procs : Killed(i)

SpecRaceLedger == Init /\ [][NextRaceLedger]_vars

\* one process at a time runs step by step
Alone(i) == \A j \in Procs \ {i} : ~Running(j)

\* commit and rm sharing the history: between the steps of the process that
\* runs step by step, the others run their command undisturbed
NextRaceHistory ==
    \/ now < MaxRaceNow /\ Tick
    \/ \E project \in Names : cmd_init(project)
    \/ /\ get_current_project # ""
       /\ Len(load_data(uncommitted, get_current_project)) < MaxRaceLedger
       /\ cmd_start
    \/ cmd_end
    \/ \E message \in {"A"} : cmd_commit(message)
    \/ \E commit_hash \in RaceHashInputs, confirm \in Confirms :
           cmd_rm(commit_hash, confirm)
    \/ \E i \in Procs, message \in {"A"} :
           Alone(i) /\ commit_session_load(i, message)
    \/ \E i \in Procs : commit_session_load_committed(i)
    \/ \E i \in Procs : commit_session_save_uncommitted(i)
    \/ \E i \in Procs : commit_session_save_committed(i)
    \/ \E i \in Procs, commit_hash \in RaceHashInputs :
           Alone(i) /\ remove_commit_load_committed(i, commit_hash)
    \/ \E i \in Procs : remove_commit_load_deleted(i)
    \/ \E i \in Procs : remove_commit_save_committed(i)
    \/ \E i \in Procs : remove_commit_save_deleted(i)
    \/ \E i \in Procs : purge_commit_load_committed(i)
    \/ \E i \in Procs : purge_commit_load_deleted(i)
    \/ \E i \in Procs, confirm \in Confirms : purge_commit_answer(i, confirm)
    \/ \E i \in Procs : Killed(i)

SpecRaceHistory == Init /\ [][NextRaceHistory]_vars

(***************************************************************************)
(* Properties.                                                             *)
(***************************************************************************)
Ledger(p) == uncommitted[p]
History(p) == committed[p]
SoftDeleted(p) == deleted[p]

\* the three files of the current project are, in `result`, as they are now
Untouched(result) ==
    /\ result.uncommitted = Ledger(HEAD)
    /\ result.committed = History(HEAD)
    /\ result.deleted = SoftDeleted(HEAD)

LastOpen(ledger) == ledger # <<>> /\ ~HasEnd(Last(ledger))

\* C1: in every reachable state the ledger of every project has at most one
\* open Interval, and an open Interval is the last element of the ledger.
C1_OneOpenAndLast ==
    \A p \in Names :
        /\ Cardinality({i \in 1..Len(Ledger(p)) : ~HasEnd(Ledger(p)[i])}) <= 1
        /\ \A i \in 1..Len(Ledger(p)) :
               ~HasEnd(Ledger(p)[i]) => i = Len(Ledger(p))

\* a ledger of two Intervals, the first closed and the last open, in a
\* project that has committed before, and a start is refused there
C1_Witness ==
    /\ HEAD # ""
    /\ Len(Ledger(HEAD)) = 2
    /\ HasEnd(Ledger(HEAD)[1])
    /\ ~HasEnd(Ledger(HEAD)[2])
    /\ History(HEAD) # <<>>
    /\ start_session.outcome = "SessionInProgress"

\* C2: in every reachable state with a project selected, commit fails with
\* NothingToCommit exactly when the ledger is empty or its last Interval is
\* open, and then leaves the three files as they are; otherwise it leaves the
\* ledger empty, the history with one record appended, that record's sessions
\* being the ledger as it was, in order, and the soft-deleted store as it was.
C2_Commit ==
    HEAD # "" =>
       \A message \in Messages :
          LET ledger == Ledger(HEAD)
              history == History(HEAD)
              result == commit_session(message)
              fails == ledger = <<>> \/ ~HasEnd(Last(ledger))
          IN  /\ (result.outcome = "NothingToCommit") <=> fails
              /\ fails => Untouched(result)
              /\ ~fails =>
                    /\ result.outcome = "Committed"
                    /\ result.uncommitted = <<>>
                    /\ Len(result.committed) = Len(history) + 1
                    /\ SubSeq(result.committed, 1, Len(history)) = history
                    /\ Last(result.committed).sessions = ledger
                    /\ result.deleted = SoftDeleted(HEAD)

\* a second commit has moved a ledger of two Intervals to the end of history
C2_Witness ==
    /\ HEAD # ""
    /\ Ledger(HEAD) = <<>>
    /\ Len(History(HEAD)) = 2
    /\ Len(Last(History(HEAD)).sessions) = 2
    /\ History(HEAD)[1] # History(HEAD)[2]
    /\ commit_session("A").outcome = "NothingToCommit"

\* C3: in every reachable state with a project selected, start fails with
\* SessionInProgress and leaves the three files as they are when the last
\* Interval of the ledger is open; otherwise it leaves the ledger with exactly
\* one open Interval appended, and the history and the soft-deleted store as
\* they were.
C3_Start ==
    HEAD # "" =>
       LET ledger == Ledger(HEAD)
           result == start_session
       IN  IF LastOpen(ledger)
             THEN /\ result.outcome = "SessionInProgress"
                  /\ Untouched(result)
             ELSE /\ result.outcome = "SessionStarted"
                  /\ Len(result.uncommitted) = Len(ledger) + 1
                  /\ SubSeq(result.uncommitted, 1, Len(ledger)) = ledger
                  /\ ~HasEnd(Last(result.uncommitted))
                  /\ Last(result.uncommitted).start = now
                  /\ result.committed = History(HEAD)
                  /\ result.deleted = SoftDeleted(HEAD)

\* a start has appended a second Interval, open, after a closed one, and a
\* further start is refused
C3_Witness ==
    /\ HEAD # ""
    /\ Len(Ledger(HEAD)) = 2
    /\ HasEnd(Ledger(HEAD)[1])
    /\ LastOpen(Ledger(HEAD))
    /\ Last(Ledger(HEAD)).start > Ledger(HEAD)[1].start
    /\ start_session.outcome = "SessionInProgress"

\* what stop does in the current state
StopAsSpecified ==
    HEAD # "" =>
       LET ledger == Ledger(HEAD)
           n == Len(ledger)
           result == stop_session
       IN  IF ledger = <<>> \/ HasEnd(Last(ledger))
             THEN /\ result.outcome = "NoActiveSession"
                  /\ Untouched(result)
             ELSE /\ result.outcome = "SessionStopped"
                  /\ Len(result.uncommitted) = n
                  /\ SubSeq(result.uncommitted, 1, n - 1) = SubSeq(ledger, 1, n - 1)
                  /\ result.uncommitted[n] = [start |-> ledger[n].start, end |-> now]
                  /\ result.committed = History(HEAD)
                  /\ result.deleted = SoftDeleted(HEAD)

\* a step leaves every closed Interval as it is, unless it empties the ledger
ClosedKept ==
    \A p \in Names : \A i \in 1..Len(Ledger(p)) :
        HasEnd(Ledger(p)[i]) =>
           \/ Ledger(p)' = <<>>
           \/ (i <= Len(Ledger(p)') /\ Ledger(p)'[i] = Ledger(p)[i])

\* C4: in every reachable state with a project selected, stop fails with
\* NoActiveSession and leaves the three files as they are when the ledger is
\* empty or its last Interval is closed, and otherwise only sets the end of
\* the last Interval to the current time; and no step of any command changes
\* a closed Interval that stays in the ledger.
C4_Stop == []StopAsSpecified /\ [][ClosedKept]_vars

\* a ledger whose last Interval was closed at an earlier time, after an
\* earlier closed Interval: stop is refused
C4_Witness ==
    /\ HEAD # ""
    /\ Len(Ledger(HEAD)) = 2
    /\ HasEnd(Last(Ledger(HEAD)))
    /\ Last(Ledger(HEAD)).end < now
    /\ stop_session.outcome = "NoActiveSession"

\* the candidates of a lookup over both stores, and the indices of those
\* whose hash begins with `prefix`
Candidates(p) == History(p) \o SoftDeleted(p)
IsPrefix(prefix, hash) ==
    /\ Len(prefix) <= Len(hash)
    /\ \A k \in 1..Len(prefix) : hash[k] = prefix[k]
MatchingIn(prefix, cands) == {i \in 1..Len(cands) : IsPrefix(prefix, cands[i].hash)}
Holds(data, hash) == \E i \in 1..Len(data) : data[i].hash = hash
RemoveAt(data, i) == SubSeq(data, 1, i - 1) \o SubSeq(data, i + 1, Len(data))
NotFound == [ok |-> FALSE, error |-> "CommitNotFound"]
Ambiguous == [ok |-> FALSE, error |-> "AmbiguousHash"]

\* the total show_total_time would print over the files `result` leaves
TotalAfter(result) ==
    TotalTime(result.committed, result.uncommitted, result.deleted, now).total

\* C5: in every reachable state with a project selected, remove with a prefix
\* that resolves to a hash held in CommitStore moves that record to the end of
\* LifecycleStore: it is gone from CommitStore, every other record of both
\* stores and the ledger are as before, and the total that show_total_time
\* prints is the total before less the duration of the record.
C5_Remove ==
    HEAD # "" =>
       \A commit_hash \in PrefixInputs, confirm \in BOOLEAN :
          LET r == resolve_commit_hash(commit_hash, History(HEAD), SoftDeleted(HEAD))
              result == remove_commit(commit_hash, confirm)
          IN  (r.ok /\ Holds(History(HEAD), r.hash)) =>
                 /\ result.outcome = "Removed"
                 /\ \E i \in 1..Len(History(HEAD)) :
                       /\ History(HEAD)[i].hash = r.hash
                       /\ result.committed = RemoveAt(History(HEAD), i)
                       /\ result.deleted = Append(SoftDeleted(HEAD), History(HEAD)[i])
                       /\ TotalAfter(result) =
                             show_total_time.total - CommitDuration(History(HEAD)[i])
                 /\ ~Holds(result.committed, r.hash)
                 /\ Holds(result.deleted, r.hash)
                 /\ result.uncommitted = Ledger(HEAD)

\* of two records in CommitStore the second, which lasted some time, is removed
C5_Witness ==
    /\ HEAD # ""
    /\ Len(History(HEAD)) = 2
    /\ CommitDuration(History(HEAD)[2]) > 0
    /\ History(HEAD)[1].hash # History(HEAD)[2].hash
    /\ remove_commit(History(HEAD)[2].hash, FALSE).outcome = "Removed"

\* C6: in every reachable state with a project selected, remove with a prefix
\* that resolves to a hash held in LifecycleStore only is not an error: it
\* asks purge's confirmation; declined, nothing changes; confirmed, the record
\* is erased from LifecycleStore, the rest is as before, and no prefix of that
\* hash resolves to it any more.
C6_Cascade ==
    HEAD # "" =>
       \A commit_hash \in PrefixInputs, confirm \in BOOLEAN :
          LET r == resolve_commit_hash(commit_hash, History(HEAD), SoftDeleted(HEAD))
              result == remove_commit(commit_hash, confirm)
          IN  (r.ok /\ ~Holds(History(HEAD), r.hash)) =>
                 IF confirm
                   THEN /\ result.outcome = "Purged"
                        /\ \E i \in 1..Len(SoftDeleted(HEAD)) :
                              /\ SoftDeleted(HEAD)[i].hash = r.hash
                              /\ result.deleted = RemoveAt(SoftDeleted(HEAD), i)
                        /\ result.uncommitted = Ledger(HEAD)
                        /\ result.committed = History(HEAD)
                        /\ \A k \in 0..HashLen :
                              LET again == resolve_commit_hash(SubSeq(r.hash, 1, k),
                                               result.committed, result.deleted)
                              IN  ~(again.ok /\ again.hash = r.hash)
                   ELSE /\ result.outcome = "PurgeAborted"
                        /\ Untouched(result)

\* a removed record, next to a record that stays in CommitStore, is named to
\* remove again and purged
C6_Witness ==
    /\ HEAD # ""
    /\ Len(SoftDeleted(HEAD)) = 1
    /\ Len(History(HEAD)) = 1
    /\ History(HEAD)[1].hash # SoftDeleted(HEAD)[1].hash
    /\ remove_commit(SoftDeleted(HEAD)[1].hash, TRUE).outcome = "Purged"
    /\ remove_commit(SoftDeleted(HEAD)[1].hash, TRUE).deleted = <<>>

\* C7: in every reachable state with a project selected, a confirmed purge
\* with a prefix that resolves erases the record of that hash from the store
\* that holds it, leaves the other store, every other record and the ledger
\* as they were, and over the stores it leaves the full hash resolves to
\* NotFound.
C7_Purge ==
    HEAD # "" =>
       \A commit_hash \in PrefixInputs :
          LET r == resolve_commit_hash(commit_hash, History(HEAD), SoftDeleted(HEAD))
              result == purge_commit(commit_hash, TRUE)
          IN  r.ok =>
                 /\ result.outcome = "Purged"
                 /\ IF Holds(History(HEAD), r.hash)
                      THEN /\ \E i \in 1..Len(History(HEAD)) :
                                 /\ History(HEAD)[i].hash = r.hash
                                 /\ result.committed = RemoveAt(History(HEAD), i)
                           /\ result.deleted = SoftDeleted(HEAD)
                      ELSE /\ \E i \in 1..Len(SoftDeleted(HEAD)) :
                                 /\ SoftDeleted(HEAD)[i].hash = r.hash
                                 /\ result.deleted = RemoveAt(SoftDeleted(HEAD), i)
                           /\ result.committed = History(HEAD)
                 /\ result.uncommitted = Ledger(HEAD)
                 /\ resolve_commit_hash(r.hash, result.committed, result.deleted)
                       = NotFound

\* the first of two records in CommitStore is purged by a proper prefix of
\* its hash
C7_Witness ==
    /\ HEAD # ""
    /\ Len(History(HEAD)) = 2
    /\ History(HEAD)[1].hash # History(HEAD)[2].hash
    /\ \E k \in 1..(HashLen - 1) :
          LET result == purge_commit(SubSeq(History(HEAD)[1].hash, 1, k), TRUE)
          IN  /\ result.outcome = "Purged"
              /\ result.committed = <<History(HEAD)[2]>>

\* C8: in every reachable state with a project selected, remove and purge
\* with a prefix that matches no held hash fail with CommitNotFound, with a
\* prefix that matches more than one held record fail with AmbiguousHash, and
\* either way leave the three files as they are.
C8_NoPartialMutation ==
    HEAD # "" =>
       \A commit_hash \in PrefixInputs, confirm \in BOOLEAN :
          LET n == Cardinality(MatchingIn(commit_hash, Candidates(HEAD)))
              removed == remove_commit(commit_hash, confirm)
              purged == purge_commit(commit_hash, confirm)
          IN  /\ n = 0 =>
                    /\ removed.outcome = "CommitNotFound" /\ Untouched(removed)
                    /\ purged.outcome = "CommitNotFound" /\ Untouched(purged)
              /\ n > 1 =>
                    /\ removed.outcome = "AmbiguousHash" /\ Untouched(removed)
                    /\ purged.outcome = "AmbiguousHash" /\ Untouched(purged)

\* a committed and a removed record with different hashes that begin alike:
\* the common prefix is refused as ambiguous, an unknown one as not found
C8_Witness ==
    /\ HEAD # ""
    /\ Len(History(HEAD)) = 1
    /\ Len(SoftDeleted(HEAD)) = 1
    /\ History(HEAD)[1].hash # SoftDeleted(HEAD)[1].hash
    /\ \E commit_hash \in PrefixInputs :
          /\ commit_hash # <<>>
          /\ remove_commit(commit_hash, TRUE).outcome = "AmbiguousHash"
          /\ purge_commit(commit_hash, TRUE).outcome = "AmbiguousHash"
    /\ purge_commit(<<Pad>>, TRUE).outcome = "CommitNotFound"

\* hashes of the specification's example, as strings of characters
abc123 == <<"a", "b", "c", "1", "2", "3">>
abc999 == <<"a", "b", "c", "9", "9", "9">>

\* prefixes looked up in the stores of project p
ProbePrefixes(p) ==
    {<<>>} \cup {<<d>> : d \in HashDigits}
    \cup {<<d, e>> : d \in HashDigits, e \in HashDigits}
    \cup {SubSeq(Candidates(p)[i].hash, 1, k) :
             i \in 1..Len(Candidates(p)), k \in 1..HashLen}

\* C9: resolve_commit_hash returns the hash of the one candidate that starts
\* with the prefix, NotFound when no candidate does and Ambiguous when several
\* do, over the stores of every reachable state and over the specification's
\* example; a full hash held exactly once resolves to itself.
C9_Resolve ==
    /\ resolve_commit_hash(<<"a", "b", "c">>, <<[hash |-> abc123]>>,
                           <<[hash |-> abc999]>>) = Ambiguous
    /\ resolve_commit_hash(<<"a", "b", "c", "1">>, <<[hash |-> abc123]>>,
                           <<[hash |-> abc999]>>) = [ok |-> TRUE, hash |-> abc123]
    /\ resolve_commit_hash(<<"x", "y", "z">>, <<[hash |-> abc123]>>,
                           <<[hash |-> abc999]>>) = NotFound
    /\ \A p \in Names :
          /\ \A prefix \in ProbePrefixes(p) :
                LET m == MatchingIn(prefix, Candidates(p))
                    r == resolve_commit_hash(prefix, History(p), SoftDeleted(p))
                IN  /\ Cardinality(m) = 1 =>
                          r = [ok |-> TRUE, hash |-> Candidates(p)[CHOOSE i \in m : TRUE].hash]
                    /\ Cardinality(m) = 0 => r = NotFound
                    /\ Cardinality(m) > 1 => r = Ambiguous
          /\ \A i \in 1..Len(Candidates(p)) :
                LET hash == Candidates(p)[i].hash
                IN  (\A j \in 1..Len(Candidates(p)) : Candidates(p)[j].hash = hash => j = i)
                       => resolve_commit_hash(hash, History(p), SoftDeleted(p))
                             = [ok |-> TRUE, hash |-> hash]

\* a committed and a removed record whose hashes differ and begin alike: the
\* common prefix is ambiguous, each full hash resolves to itself
C9_Witness ==
    /\ HEAD # ""
    /\ Len(History(HEAD)) = 1
    /\ Len(SoftDeleted(HEAD)) = 1
    /\ History(HEAD)[1].hash # SoftDeleted(HEAD)[1].hash
    /\ History(HEAD)[1].hash[1] = SoftDeleted(HEAD)[1].hash[1]
    /\ resolve_commit_hash(<<History(HEAD)[1].hash[1]>>, History(HEAD),
                           SoftDeleted(HEAD)) = Ambiguous
    /\ resolve_commit_hash(SoftDeleted(HEAD)[1].hash, History(HEAD),
                           SoftDeleted(HEAD)).ok

\* elapsed(interval), with `now` as the end of an open Interval
Elapsed(interval) == (IF HasEnd(interval) THEN interval.end ELSE now) - interval.start

\* C10: in every reachable state with a project selected, the total that
\* show_total_time prints is the sum of the durations of all records in
\* CommitStore plus the elapsed time of all Intervals in the ledger, whatever
\* LifecycleStore holds.
C10_TotalTime ==
    HEAD # "" =>
       show_total_time.total =
          SumSeq([i \in 1..Len(History(HEAD)) |-> CommitDuration(History(HEAD)[i])])
          + SumSeq([i \in 1..Len(Ledger(HEAD)) |-> Elapsed(Ledger(HEAD)[i])])

\* the edits of the record that `commit_hash` resolves to over CommitStore
\* which the parse accepts
ParsedEdits(commit_hash) == {e \in EditInputs(commit_hash) : e.kind = "parsed"}

\* C11: in every reachable state with a project selected, an edit whose
\* prefix resolves to a record of CommitStore and whose parsed sessions are
\* not empty leaves that record, at the index it had, with the new sessions,
\* the new message (as read, without surrounding blanks) and the hash of the
\* new sessions, and leaves the length of the history, every other record,
\* the ledger and LifecycleStore as they were.
C11_EditInPlace ==
    HEAD # "" =>
       \A commit_hash \in PrefixInputs :
          LET r == resolve_commit_hash(commit_hash, History(HEAD), <<>>)
          IN  r.ok =>
                 \A edited \in ParsedEdits(commit_hash) :
                    LET result == edit_commit(commit_hash, edited)
                        i == CHOOSE k \in 1..Len(History(HEAD)) :
                                 History(HEAD)[k].hash = r.hash
                    IN  edited.sessions # <<>> =>
                           /\ result.outcome = "Edited"
                           /\ Len(result.committed) = Len(History(HEAD))
                           /\ result.committed[i].sessions = edited.sessions
                           /\ result.committed[i].message = "A"
                           /\ result.committed[i].hash =
                                 generate_commit_hash(edited.sessions)
                           /\ \A k \in 1..Len(History(HEAD)) :
                                 k # i => result.committed[k] = History(HEAD)[k]
                           /\ result.uncommitted = Ledger(HEAD)
                           /\ result.deleted = SoftDeleted(HEAD)

\* the first of two records of CommitStore, next to a ledger that is not
\* empty, is edited to other sessions and keeps its place
C11_Witness ==
    /\ HEAD # ""
    /\ Len(History(HEAD)) = 2
    /\ History(HEAD)[1].hash # History(HEAD)[2].hash
    /\ Ledger(HEAD) # <<>>
    /\ \E edited \in ParsedEdits(History(HEAD)[1].hash) :
          LET result == edit_commit(History(HEAD)[1].hash, edited)
          IN  /\ result.outcome = "Edited"
              /\ result.committed[1].sessions # History(HEAD)[1].sessions
              /\ result.committed[2] = History(HEAD)[2]

\* C12: in every reachable state with a project selected, an edit whose
\* prefix resolves to a record of CommitStore and whose parsed sessions are
\* empty deletes that record: the history is one shorter, the other records
\* keep their order, no record of the history is left with empty sessions on
\* its account, and the ledger and LifecycleStore are as they were.
C12_EditEmptyDeletes ==
    HEAD # "" =>
       \A commit_hash \in PrefixInputs :
          LET r == resolve_commit_hash(commit_hash, History(HEAD), <<>>)
          IN  r.ok =>
                 \A edited \in ParsedEdits(commit_hash) :
                    LET result == edit_commit(commit_hash, edited)
                        i == CHOOSE k \in 1..Len(History(HEAD)) :
                                 History(HEAD)[k].hash = r.hash
                    IN  edited.sessions = <<>> =>
                           /\ result.outcome = "EditDeleted"
                           /\ Len(result.committed) = Len(History(HEAD)) - 1
                           /\ result.committed = RemoveAt(History(HEAD), i)
                           /\ ~Holds(result.committed, r.hash)
                           /\ result.deleted = SoftDeleted(HEAD)
                           /\ result.uncommitted = Ledger(HEAD)

\* the first of two records of CommitStore is emptied in the editor; the
\* second is what the history keeps
C12_Witness ==
    /\ HEAD # ""
    /\ Len(History(HEAD)) = 2
    /\ History(HEAD)[1].hash # History(HEAD)[2].hash
    /\ \E edited \in ParsedEdits(History(HEAD)[1].hash) :
          LET result == edit_commit(History(HEAD)[1].hash, edited)
          IN  /\ edited.sessions = <<>>
              /\ result.outcome = "EditDeleted"
              /\ result.committed = <<History(HEAD)[2]>>

\* C13: in every reachable state every record of CommitStore and of
\* LifecycleStore, in every project, has the hash of its sessions; two held
\* records with the same sessions have the same hash whatever their messages;
\* and an edit whose parsed sessions are the sessions the record has leaves
\* the record with the hash it had, whatever message it gives it.
C13_HashOfSessions ==
    /\ \A p \in Names : \A i \in 1..Len(Candidates(p)) :
          /\ Candidates(p)[i].hash = generate_commit_hash(Candidates(p)[i].sessions)
          /\ \A j \in 1..Len(Candidates(p)) :
                Candidates(p)[i].sessions = Candidates(p)[j].sessions
                   => Candidates(p)[i].hash = Candidates(p)[j].hash
    /\ HEAD # "" =>
          \A commit_hash \in PrefixInputs :
             LET r == resolve_commit_hash(commit_hash, History(HEAD), <<>>)
             IN  r.ok =>
                    \A edited \in ParsedEdits(commit_hash) :
                       LET i == CHOOSE k \in 1..Len(History(HEAD)) :
                                    History(HEAD)[k].hash = r.hash
                           result == edit_commit(commit_hash, edited)
                       IN  (edited.sessions = History(HEAD)[i].sessions
                              /\ edited.sessions # <<>>)
                              => result.committed[i].hash = r.hash

\* a removed record and a committed one with the same sessions and different
\* messages, and an edit of the committed one that changes its message only
C13_Witness ==
    /\ HEAD # ""
    /\ Len(History(HEAD)) = 1
    /\ Len(SoftDeleted(HEAD)) = 1
    /\ History(HEAD)[1].sessions = SoftDeleted(HEAD)[1].sessions
    /\ History(HEAD)[1].message # SoftDeleted(HEAD)[1].message
    /\ \E edited \in ParsedEdits(History(HEAD)[1].hash) :
          LET result == edit_commit(History(HEAD)[1].hash, edited)
          IN  /\ edited.sessions = History(HEAD)[1].sessions
              /\ result.outcome = "Edited"
              /\ result.committed[1].message # History(HEAD)[1].message
              /\ result.committed[1].hash = History(HEAD)[1].hash

\* C14: in every reachable state, in every project, no hash is held by a
\* record of CommitStore and by a record of LifecycleStore at once.
C14_StoresDisjoint ==
    \A p \in Names :
       \A i \in 1..Len(History(p)) : ~Holds(SoftDeleted(p), History(p)[i].hash)

\* C15: in every reachable state, in every project, every Interval in the
\* sessions of every record of CommitStore and of LifecycleStore has an end;
\* and whenever the last Interval of a ledger has an end, every Interval of
\* that ledger has one, so that what commit checks is enough.
C15_RecordsClosed ==
    \A p \in Names :
       /\ \A i \in 1..Len(Candidates(p)) :
             \A k \in 1..Len(Candidates(p)[i].sessions) :
                HasEnd(Candidates(p)[i].sessions[k])
       /\ (Ledger(p) # <<>> /\ HasEnd(Last(Ledger(p))))
             => \A k \in 1..Len(Ledger(p)) : HasEnd(Ledger(p)[k])

\* a record of two Intervals in CommitStore next to a removed record, while
\* the ledger holds an open Interval that commit refuses
C15_Witness ==
    /\ HEAD # ""
    /\ Len(History(HEAD)) = 1
    /\ Len(History(HEAD)[1].sessions) = 2
    /\ Len(SoftDeleted(HEAD)) = 1
    /\ LastOpen(Ledger(HEAD))
    /\ commit_session("A").outcome = "NothingToCommit"

\* how many elements of `list` equal x
Count(x, list) == Cardinality({i \in 1..Len(list) : list[i] = x})

\* `result` holds no record more often than the two stores hold it now
NothingAdded(result) ==
    \A i \in 1..(Len(result.committed) + Len(result.deleted)) :
        LET x == (result.committed \o result.deleted)[i]
        IN  Count(x, result.committed \o result.deleted) <= Count(x, Candidates(HEAD))

\* what the commands leave of LifecycleStore in the current state
RemovedStays ==
    HEAD # "" =>
       /\ start_session.deleted = SoftDeleted(HEAD)
       /\ stop_session.deleted = SoftDeleted(HEAD)
       /\ \A message \in Messages :
             commit_session(message).deleted = SoftDeleted(HEAD)
       /\ \A confirm \in BOOLEAN :
             reset_sessions(confirm).deleted = SoftDeleted(HEAD)
       /\ \A commit_hash \in PrefixInputs : \A edited \in EditInputs(commit_hash) :
             edit_commit(commit_hash, edited).deleted = SoftDeleted(HEAD)
       /\ \A commit_hash \in PrefixInputs, confirm \in BOOLEAN :
             LET r == resolve_commit_hash(commit_hash, History(HEAD), SoftDeleted(HEAD))
                 removed == remove_commit(commit_hash, confirm)
                 purged == purge_commit(commit_hash, confirm)
                 Erased(list) ==
                    \E i \in 1..Len(SoftDeleted(HEAD)) :
                       /\ r.ok /\ confirm
                       /\ SoftDeleted(HEAD)[i].hash = r.hash
                       /\ list = RemoveAt(SoftDeleted(HEAD), i)
             IN  /\ \/ removed.deleted = SoftDeleted(HEAD)
                    \/ \E i \in 1..Len(History(HEAD)) :
                          removed.deleted = Append(SoftDeleted(HEAD), History(HEAD)[i])
                    \/ Erased(removed.deleted)
                 /\ purged.deleted = SoftDeleted(HEAD) \/ Erased(purged.deleted)
                 /\ NothingAdded(removed)
                 /\ NothingAdded(purged)

\* a step keeps the records of LifecycleStore, in order, before any it adds,
\* unless it erases one of them and nothing else, or deletes the project
RemovedKept ==
    \A p \in Names :
       \/ /\ Len(SoftDeleted(p)) <= Len(SoftDeleted(p)')
          /\ SubSeq(SoftDeleted(p)', 1, Len(SoftDeleted(p))) = SoftDeleted(p)
       \/ /\ \E i \in 1..Len(SoftDeleted(p)) :
                SoftDeleted(p)' = RemoveAt(SoftDeleted(p), i)
          /\ History(p)' = History(p)
          /\ Ledger(p)' = Ledger(p)
       \/ p \notin projects'

\* C16: in every reachable state with a project selected, start, stop,
\* commit, reset and edit leave LifecycleStore as it is; remove leaves it as
\* it is, or with one record of CommitStore appended, or, confirmed, without
\* the record of the hash it resolved; purge leaves it as it is or,
\* confirmed, without the record of the hash it resolved; remove and purge
\* leave no record in the two stores that these did not hold.  And every step
\* keeps the records of LifecycleStore as they are, in order, unless it
\* erases one of them or deletes the project.
C16_RemovedUntilPurged == []RemovedStays /\ [][RemovedKept]_vars

\* a removed record, while another record is removed after it and a
\* committed record can be edited
C16_Witness ==
    /\ HEAD # ""
    /\ Len(SoftDeleted(HEAD)) = 1
    /\ Len(History(HEAD)) = 1
    /\ History(HEAD)[1].hash # SoftDeleted(HEAD)[1].hash
    /\ remove_commit(History(HEAD)[1].hash, FALSE).deleted
          = <<SoftDeleted(HEAD)[1], History(HEAD)[1]>>
    /\ \E edited \in ParsedEdits(History(HEAD)[1].hash) :
          edit_commit(History(HEAD)[1].hash, edited).outcome = "Edited"

\* the commit time a boundary argument of export stands for: none when the
\* argument is absent or is the hash of no record of CommitStore
BoundOf(p, hash) ==
    IF hash # <<>> /\ Holds(History(p), hash)
      THEN {History(p)[i].sessions[1].start :
               i \in {k \in 1..Len(History(p)) : History(p)[k].hash = hash}}
      ELSE {}

\* the elements of `list` at the indices in `keep`, in the order of the list
Restrict(list, keep) ==
    [k \in 1..Cardinality(keep) |->
        list[CHOOSE i \in keep : Cardinality({j \in keep : j <= i}) = k]]

\* C17: in every reachable state with a project selected, for all boundary
\* arguments, export lists exactly the records of CommitStore whose first
\* Interval starts no earlier than the commit time of the record of
\* CommitStore with the `from` hash and no later than that of the record with
\* the `to` hash, in the order of the history; a bound whose argument is
\* absent, or is the hash of no record of CommitStore, does not restrict.
C17_RangeFilter ==
    HEAD # "" =>
       \A from_commit \in BoundaryInputs, to_commit \in BoundaryInputs :
          LET history == History(HEAD)
              keep == {i \in 1..Len(history) :
                         /\ \A t \in BoundOf(HEAD, from_commit) :
                               t <= history[i].sessions[1].start
                         /\ \A t \in BoundOf(HEAD, to_commit) :
                               history[i].sessions[1].start <= t}
          IN  export_sessions(FALSE, from_commit, to_commit).commits
                 = Restrict(history, keep)

\* two records of CommitStore with different commit times: the range from
\* the later to the later lists the later only, and a hash that CommitStore
\* does not hold bounds nothing
C17_Witness ==
    /\ HEAD # ""
    /\ Len(History(HEAD)) = 2
    /\ History(HEAD)[1].sessions[1].start < History(HEAD)[2].sessions[1].start
    /\ export_sessions(FALSE, History(HEAD)[2].hash, History(HEAD)[2].hash).commits
          = <<History(HEAD)[2]>>
    /\ export_sessions(FALSE, [i \in 1..HashLen |-> Pad], History(HEAD)[1].hash).commits
          = <<History(HEAD)[1]>>

\* C18, as claimed: in every state reachable by init, start, end, commit and
\* rm, with a project selected, for every record A of CommitStore export from
\* A's hash to A's hash lists record A and nothing else.
C18_ExactlyA ==
    HEAD # "" =>
       \A i \in 1..Len(History(HEAD)) :
          export_sessions(FALSE, History(HEAD)[i].hash, History(HEAD)[i].hash).commits
             = <<History(HEAD)[i]>>

\* C18, amended: in every state reachable by init, start, end, commit and rm,
\* with a project selected, for every record A of CommitStore export from A's
\* hash to A's hash lists, in the order of the history, exactly the records
\* of CommitStore whose first Interval starts when A's does, whatever
\* LifecycleStore holds: record A alone when no other record of CommitStore
\* starts at that instant.
C18_SameCommitTime ==
    HEAD # "" =>
       \A i \in 1..Len(History(HEAD)) :
          LET history == History(HEAD)
              same == {k \in 1..Len(history) :
                          history[k].sessions[1].start = history[i].sessions[1].start}
              listed == export_sessions(FALSE, history[i].hash, history[i].hash).commits
          IN  /\ listed = Restrict(history, same)
              /\ same = {i} => listed = <<history[i]>>
              /\ \A k \in 1..Len(SoftDeleted(HEAD)) :
                    Holds(history, SoftDeleted(HEAD)[k].hash)
                       \/ ~InList(SoftDeleted(HEAD)[k], listed)

\* record A in CommitStore and a removed record B of another hash that
\* started at the same instant: export from A to A lists A alone
C18_Witness ==
    /\ HEAD # ""
    /\ Len(History(HEAD)) = 1
    /\ Len(SoftDeleted(HEAD)) = 1
    /\ History(HEAD)[1].hash # SoftDeleted(HEAD)[1].hash
    /\ History(HEAD)[1].sessions[1].start = SoftDeleted(HEAD)[1].sessions[1].start
    /\ export_sessions(FALSE, History(HEAD)[1].hash, History(HEAD)[1].hash).commits
          = <<History(HEAD)[1]>>

\* a duration of m minutes, in units of the clock
Minutes(m) == m * TicksPerMinute

\* the history holds record "A" of one Interval of 30 minutes
HistoryOfA(history) ==
    /\ Len(history) >= 1
    /\ history[1].message = "A"
    /\ Len(history[1].sessions) = 1
    /\ CommitDuration(history[1]) = Minutes(30)

\* `record` is record "B" of one Interval of 10 minutes
IsB(record) ==
    /\ record.message = "B"
    /\ Len(record.sessions) = 1
    /\ CommitDuration(record) = Minutes(10)

\* prefixes of `hash`
PrefixesOf(hash) == {SubSeq(hash, 1, k) : k \in 0..Len(hash)}

\* the scenario up to the first rm
ScenarioUntilRemove ==
    (HEAD # "" /\ SoftDeleted(HEAD) = <<>>) =>
       LET ledger == Ledger(HEAD)
           history == History(HEAD)
       IN  /\ (history = <<>> /\ Len(ledger) = 1 /\ HasEnd(ledger[1])
                 /\ ledger[1].end - ledger[1].start = Minutes(30)) =>
                 LET result == commit_session("A")
                 IN  /\ result.outcome = "Committed"
                     /\ Len(result.committed) = 1
                     /\ HistoryOfA(result.committed)
                     /\ result.uncommitted = <<>>
           /\ (Len(history) = 1 /\ HistoryOfA(history)
                 /\ Len(ledger) = 1 /\ HasEnd(ledger[1])
                 /\ ledger[1].end - ledger[1].start = Minutes(10)) =>
                 LET result == commit_session("B")
                 IN  /\ result.outcome = "Committed"
                     /\ Len(result.committed) = 2
                     /\ IsB(result.committed[2])
                     /\ TotalAfter(result) = Minutes(40)
           /\ (Len(history) = 2 /\ HistoryOfA(history) /\ IsB(history[2])
                 /\ ledger = <<>>) =>
                 /\ show_total_time.total = Minutes(40)
                 /\ \A prefix \in PrefixesOf(history[2].hash), confirm \in BOOLEAN :
                       resolve_commit_hash(prefix, history, <<>>)
                             = [ok |-> TRUE, hash |-> history[2].hash] =>
                          LET removed == remove_commit(prefix, confirm)
                          IN  /\ removed.outcome = "Removed"
                              /\ removed.committed = <<history[1]>>
                              /\ removed.deleted = <<history[2]>>
                              /\ TotalAfter(removed) = Minutes(30)

\* the scenario from the second rm
ScenarioSecondRemove ==
    (HEAD # "" /\ Len(History(HEAD)) = 1 /\ HistoryOfA(History(HEAD))
       /\ Len(SoftDeleted(HEAD)) = 1 /\ IsB(SoftDeleted(HEAD)[1])) =>
       LET hashB == SoftDeleted(HEAD)[1].hash
       IN  /\ show_total_time.total = Minutes(30)
           /\ \A prefix \in PrefixesOf(hashB) :
                 resolve_commit_hash(prefix, History(HEAD), SoftDeleted(HEAD))
                       = [ok |-> TRUE, hash |-> hashB] =>
                    LET purged == remove_commit(prefix, TRUE)
                    IN  /\ purged.outcome = "Purged"
                        /\ purged.deleted = <<>>
                        /\ purged.committed = History(HEAD)
                        /\ \A again \in PrefixesOf(hashB) :
                              LET r == resolve_commit_hash(again, purged.committed,
                                                           purged.deleted)
                              IN  ~(r.ok /\ r.hash = hashB)
\* C19: in every state of a day of init, start, end, commit and rm: a ledger
\* of one Interval of 30 minutes and an empty history commit "A" to a history
\* of one record of 30 minutes and an empty ledger; with "A" in the history,
\* a ledger of one Interval of 10 minutes commits "B" to a history of two
\* records with a total of 40 minutes; with "A" and "B" in the history, rm of
\* any prefix that resolves to B's hash removes B and makes the total 30
\* minutes; with B removed, rm of any prefix that resolves to B's hash,
\* confirmed, erases B, and then no prefix of B's hash resolves.
C19_EndToEnd == ScenarioUntilRemove /\ ScenarioSecondRemove

\* "A" of 30 minutes is in the history and "B" of 10 minutes, committed
\* after it, has been removed: a second rm of the first character of B's
\* hash purges it
C19_Witness ==
    /\ HEAD # ""
    /\ Len(History(HEAD)) = 1
    /\ HistoryOfA(History(HEAD))
    /\ Len(SoftDeleted(HEAD)) = 1
    /\ IsB(SoftDeleted(HEAD)[1])
    /\ SoftDeleted(HEAD)[1].sessions[1].start >= History(HEAD)[1].sessions[1].end
    /\ show_total_time.total = Minutes(30)
    /\ remove_commit(SubSeq(SoftDeleted(HEAD)[1].hash, 1, 1), TRUE).outcome = "Purged"

\* answers that are not affirmative
Declining == {"", "n"}

\* C20: in every reachable state, for every answer that is not affirmative:
\* deleting a project leaves the projects and the active project as they are
\* and erases nothing; and, with a project selected, reset, purge of any
\* prefix, and remove of any prefix that resolves to a record held in
\* LifecycleStore only, leave the ledger, CommitStore and LifecycleStore as
\* they are.
C20_DeclinedIsNoOp ==
    \A answer \in Declining :
       /\ \A project \in Names :
             LET result == delete_project(project, Confirmed(answer))
             IN  /\ result.outcome \in {"DeletionAborted", "ProjectNotFound"}
                 /\ project \in projects => result.outcome = "DeletionAborted"
                 /\ result.HEAD = HEAD
                 /\ result.projects = projects
       /\ HEAD # "" =>
             /\ Untouched(reset_sessions(Confirmed(answer)))
             /\ Ledger(HEAD) # <<>> =>
                   reset_sessions(Confirmed(answer)).outcome = "ResetAborted"
             /\ \A commit_hash \in PrefixInputs :
                   LET r == resolve_commit_hash(commit_hash, History(HEAD),
                                                SoftDeleted(HEAD))
                       purged == purge_commit(commit_hash, Confirmed(answer))
                       removed == remove_commit(commit_hash, Confirmed(answer))
                   IN  /\ Untouched(purged)
                       /\ r.ok => purged.outcome = "PurgeAborted"
                       /\ (r.ok /\ ~Holds(History(HEAD), r.hash)) =>
                             /\ removed.outcome = "PurgeAborted"
                             /\ Untouched(removed)

\* a project with a ledger, a committed and a removed record: reset, purge,
\* remove of the removed record and deletion of the project are each
\* declined
C20_Witness ==
    /\ HEAD # ""
    /\ HEAD \in projects
    /\ Ledger(HEAD) # <<>>
    /\ Len(History(HEAD)) = 1
    /\ Len(SoftDeleted(HEAD)) = 1
    /\ History(HEAD)[1].hash # SoftDeleted(HEAD)[1].hash
    /\ reset_sessions(Confirmed("")).outcome = "ResetAborted"
    /\ purge_commit(History(HEAD)[1].hash, Confirmed("n")).outcome = "PurgeAborted"
    /\ remove_commit(SoftDeleted(HEAD)[1].hash, Confirmed("")).outcome = "PurgeAborted"
    /\ delete_project(HEAD, Confirmed("n")).outcome = "DeletionAborted"

\* C21: in every reachable state with a project selected, reset answered
\* affirmatively leaves an empty ledger whatever the ledger holds (an open
\* Interval included) and leaves CommitStore and LifecycleStore as they are;
\* on an empty ledger reset reports NothingToReset and leaves the three files
\* as they are whatever would be answered, the prompt not being reached.
C21_Reset ==
    HEAD # "" =>
       /\ \A answer \in Answers :
             LET result == reset_sessions(Confirmed(answer))
             IN  IF Ledger(HEAD) = <<>>
                   THEN /\ result.outcome = "NothingToReset"
                        /\ Untouched(result)
                   ELSE /\ result.outcome \in {"ResetDone", "ResetAborted"}
                        /\ result.outcome = "ResetDone"
                              <=> answer \in Answers \ Declining
                        /\ result.outcome = "ResetDone" =>
                              /\ result.uncommitted = <<>>
                              /\ result.committed = History(HEAD)
                              /\ result.deleted = SoftDeleted(HEAD)

\* a ledger of a closed and an open Interval in a project that holds a
\* committed and a removed record, and reset is confirmed there
C21_Witness ==
    /\ HEAD # ""
    /\ Len(Ledger(HEAD)) = 2
    /\ LastOpen(Ledger(HEAD))
    /\ History(HEAD) # <<>>
    /\ SoftDeleted(HEAD) # <<>>
    /\ reset_sessions(Confirmed(" YES ")).outcome = "ResetDone"

\* C22: in every reachable state of the project commands the contents of
\* HEAD_FILE are empty or the name of a project that exists; init of an
\* existing name and checkout of a missing name fail and leave HEAD_FILE as it
\* is; and a confirmed delete of the project HEAD_FILE names empties it.
C22_PointerExists ==
    /\ HEAD = "" \/ HEAD \in projects
    /\ \A project \in ProjectNames :
          /\ project \in projects =>
                /\ init_project(project).outcome = "ProjectAlreadyExists"
                /\ init_project(project).HEAD = HEAD
          /\ project \notin projects =>
                /\ checkout_project(project).outcome = "ProjectNotFound"
                /\ checkout_project(project).HEAD = HEAD
          /\ (project \in projects /\ HEAD = project) =>
                \A answer \in Answers \ Declining :
                    delete_project(project, Confirmed(answer)).HEAD = ""

\* the record a remove at line 393 found in its copy of the history
Found(self) ==
    self.committed_data[FirstWithHash(self.committed_data, self.full_hash)]

\* the records the history file holds that the process's copy does not
AppendedSince(self) ==
    {History(self.project)[k] : k \in 1..Len(History(self.project))}
    \ {self.committed_data[k] : k \in 1..Len(self.committed_data)}

\* C23: in every reachable state, a remove that is about to rewrite the
\* history file (line 393) leaves in it its own copy of the history without
\* the record it removes, and then its own copy of the soft-deleted records
\* with that record, and reports success: a record that a commit has appended
\* to the file since the remove loaded it, that commit having completed
\* successfully, is in the history file no longer, and is in neither store
\* unless the remove's own copies held it.
C23_LastWriterWins ==
    \A i \in Procs :
        LET self == invocations[i]
            history == save_data(ListRemove(self.committed_data, Found(self)),
                                 History(self.project))
            removed == save_data(MoveToDeleted(self.deleted_data, Found(self)),
                                 SoftDeleted(self.project))
        IN  (self.command = "rm" /\ self.line = 393) =>
               /\ history = ListRemove(self.committed_data, Found(self))
               /\ removed = Append(self.deleted_data, Found(self))
               /\ \A record \in AppendedSince(self) :
                     /\ ~InList(record, history)
                     /\ ~InList(record, self.deleted_data) /\ record # Found(self)
                           => ~InList(record, removed)

\* a remove is about to rewrite the history file, a commit of other sessions
\* has run from start to end since the remove loaded the file, and the
\* remove's copies hold nothing of that commit
C23_Witness ==
    \E i \in Procs :
        LET self == invocations[i]
        IN  /\ self.command = "rm"
            /\ self.line = 393
            /\ \E record \in AppendedSince(self) :
                  /\ record.hash # self.full_hash
                  /\ ~InList(record, self.deleted_data)
                  /\ Last(History(self.project)) = record
            /\ InList(Found(self), History(self.project))

\* the sessions are those of a record of `history`
CommittedIn(history, sessions) ==
    \E k \in 1..Len(history) : history[k].sessions = sessions

\* C24: in every reachable state, when a commit has saved the ledger file
\* and not yet the history file (line 146), the Intervals it commits are
\* either still the ledger or the sessions of a record of the history file,
\* never neither and never both; and when a remove has saved the history
\* file and not yet the soft-deleted file (line 394), the record it removes
\* is in the history file or in the soft-deleted file, never in neither and
\* never in both.
C24_AllOrNothing ==
    \A i \in Procs :
        LET self == invocations[i]
            commit_to_remove == Last(self.deleted_data)
        IN  /\ (self.command = "commit" /\ self.line = 146) =>
                  (Ledger(self.project) = self.uncommitted_data)
                     # CommittedIn(History(self.project), self.uncommitted_data)
            /\ (self.command = "rm" /\ self.line = 394) =>
                  InList(commit_to_remove, History(self.project))
                     # InList(commit_to_remove, SoftDeleted(self.project))

\* C25: in every reachable state the hashes of the records held in
\* CommitStore and LifecycleStore together are pairwise distinct, and so
\* remove, purge and edit given the full hash of a held record do not fail
\* with AmbiguousHash.
C25_HashesDistinct ==
    HEAD # "" =>
       LET held == History(HEAD) \o SoftDeleted(HEAD)
       IN  /\ \A k, l \in 1..Len(held) : held[k].hash = held[l].hash => k = l
           /\ \A k \in 1..Len(held), answer \in Answers :
                 /\ remove_commit(held[k].hash, Confirmed(answer)).outcome
                       # "AmbiguousHash"
                 /\ purge_commit(held[k].hash, Confirmed(answer)).outcome
                       # "AmbiguousHash"
                 /\ \A edited \in EditInputs(held[k].hash) :
                       edit_commit(held[k].hash, edited).outcome
                          # "AmbiguousHash"

\* C26: in every reachable state every record of CommitStore and of
\* LifecycleStore has at least one session, and so has a commit time; commit
\* of an empty ledger is refused, and whatever is left in the editor, edit
\* leaves no record without sessions.
C26_SessionsNonEmpty ==
    /\ \A p \in Names :
          LET held == History(p) \o SoftDeleted(p)
          IN  \A k \in 1..Len(held) :
                 /\ held[k].sessions # <<>>
                 /\ get_commit_time(held[k]) # None
    /\ HEAD # "" =>
          /\ \A message \in Messages :
                LET result == commit_session(message)
                IN  /\ Ledger(HEAD) = <<>> => result.outcome = "NothingToCommit"
                    /\ \A k \in 1..Len(result.committed) :
                          result.committed[k].sessions # <<>>
          /\ \A commit_hash \in PrefixInputs :
                \A edited \in EditInputs(commit_hash) :
                   LET result == edit_commit(commit_hash, edited)
                   IN  \A k \in 1..Len(result.committed) :
                          result.committed[k].sessions # <<>>

\* a project with an empty ledger, a committed and a removed record: commit
\* is refused, and an edit that leaves no session deletes the committed
\* record
C26_Witness ==
    /\ HEAD # ""
    /\ Ledger(HEAD) = <<>>
    /\ Len(History(HEAD)) = 1
    /\ Len(SoftDeleted(HEAD)) = 1
    /\ commit_session("A").outcome = "NothingToCommit"
    /\ edit_commit(History(HEAD)[1].hash,
                   [kind |-> "parsed", message |-> "A", sessions |-> <<>>]).outcome
          = "EditDeleted"
    /\ edit_commit(History(HEAD)[1].hash,
                   [kind |-> "parsed", message |-> "A", sessions |-> <<>>]).committed
          = <<>>

\* what can be left in the editor, and an editor that is not found
AnyEdits(commit_hash) ==
    EditInputs(commit_hash)
    \cup [kind : {"parsed"}, message : Messages, sessions : {<<>>}]

\* C27: in every reachable state with a project selected, edit of a prefix
\* that matches records of LifecycleStore only fails with CommitNotFound and
\* leaves the three files as they are; and for a prefix that matches exactly
\* one record of CommitStore and exactly one of LifecycleStore, remove and
\* purge fail with AmbiguousHash while edit goes through on the record of
\* CommitStore and leaves LifecycleStore as it is.
C27_EditCommittedOnly ==
    HEAD # "" =>
       \A commit_hash \in PrefixInputs :
          LET in_committed == MatchingIn(commit_hash, History(HEAD))
              in_deleted == MatchingIn(commit_hash, SoftDeleted(HEAD))
              i == CHOOSE k \in in_committed : TRUE
          IN  /\ (in_committed = {} /\ in_deleted # {}) =>
                    \A edited \in AnyEdits(commit_hash) :
                       /\ edit_commit(commit_hash, edited).outcome
                             = "CommitNotFound"
                       /\ Untouched(edit_commit(commit_hash, edited))
              /\ (Cardinality(in_committed) = 1 /\ Cardinality(in_deleted) = 1) =>
                    /\ \A answer \in Answers :
                          /\ remove_commit(commit_hash, Confirmed(answer)).outcome
                                = "AmbiguousHash"
                          /\ purge_commit(commit_hash, Confirmed(answer)).outcome
                                = "AmbiguousHash"
                    /\ \A edited \in ParsedEdits(commit_hash) :
                          LET result == edit_commit(commit_hash, edited)
                          IN  /\ result.deleted = SoftDeleted(HEAD)
                              /\ result.uncommitted = Ledger(HEAD)
                              /\ IF edited.sessions = <<>>
                                   THEN /\ result.outcome = "EditDeleted"
                                        /\ result.committed
                                              = RemoveAt(History(HEAD), i)
                                   ELSE /\ result.outcome = "Edited"
                                        /\ result.committed[i].sessions
                                              = edited.sessions
                                        /\ \A k \in 1..Len(History(HEAD)) :
                                              k # i => result.committed[k]
                                                          = History(HEAD)[k]

\* a committed and a removed record whose hashes differ and start alike:
\* the full hash of the removed one is not found by edit, and their common
\* first character is ambiguous for remove and purge and resolves for edit
C27_Witness ==
    /\ HEAD # ""
    /\ Len(History(HEAD)) = 1
    /\ Len(SoftDeleted(HEAD)) = 1
    /\ History(HEAD)[1].hash # SoftDeleted(HEAD)[1].hash
    /\ History(HEAD)[1].hash[1] = SoftDeleted(HEAD)[1].hash[1]
    /\ \A edited \in AnyEdits(SoftDeleted(HEAD)[1].hash) :
          edit_commit(SoftDeleted(HEAD)[1].hash, edited).outcome = "CommitNotFound"
    /\ remove_commit(SubSeq(History(HEAD)[1].hash, 1, 1), TRUE).outcome
          = "AmbiguousHash"
    /\ \E edited \in ParsedEdits(SubSeq(History(HEAD)[1].hash, 1, 1)) :
          edit_commit(SubSeq(History(HEAD)[1].hash, 1, 1), edited).outcome = "Edited"

\* C28: in every reachable state of start, end, commit and reset run by
\* processes whose loads and saves interleave in any order, the ledger of
\* every project has at most one open Interval, and an open Interval is its
\* last element; and so has the copy of the ledger each process holds.
C28_LedgerUnderRaces ==
    LET OneOpenAndLast(ledger) ==
            \A k \in 1..Len(ledger) : ~HasEnd(ledger[k]) => k = Len(ledger)
    IN  /\ \A p \in Names : OneOpenAndLast(Ledger(p))
        /\ \A i \in Procs : OneOpenAndLast(invocations[i].uncommitted_data)

\* two starts have both loaded the ledger before either saved: one has
\* saved its open Interval after a closed one, the other is about to save
\* over it from the copy it loaded
C28_Witness ==
    \E i \in Procs :
        LET self == invocations[i]
        IN  /\ self.command = "start"
            /\ self.line = 105
            /\ Len(self.uncommitted_data) = 1
            /\ Len(Ledger(self.project)) = 2
            /\ LastOpen(Ledger(self.project))
            /\ SubSeq(Ledger(self.project), 1, 1) = self.uncommitted_data
====
